---- MODULE Spec2Model ----
(***************************************************************************)
(* Model of frappe/website/router.py: resolution of a request path to a   *)
(* page context, from file-based pages and generator records, through     *)
(* three caches (page_context, _website_pages, website_generator_routes). *)
(* Every access to a shared store (cache, file system, database) is one   *)
(* step of the calling request, so that concurrent requests interleave    *)
(* exactly where the code touches shared state.                           *)
(***************************************************************************)
EXTENDS Integers, Sequences, FiniteSets, TLC

VARIABLES
  files,             \* the template files present on disk
  rows,              \* the rows of the generator doctypes in the database
  cacheEnabled,      \* can_cache(): website caching is globally enabled
  page_context,      \* cache hash "page_context": path -> (lang -> context)
  website_pages,     \* cache key "_website_pages": the scanned page list
  generator_routes,  \* cache key "website_generator_routes": route -> entry
  proc,              \* the requests: position and locals of each one
  edits,             \* number of environment changes so far
  calls,             \* number of get_page_context calls started so far
  mode,              \* "conc", "race": requests overlap; "seq", "index",
                     \* "scan": one operation at a time
  \* history of a sequential run (kept when mode = "seq"):
  fresh,             \* clear_sitemap has run and no get_page_context has started since
  wiped,             \* the page_context hash as that clear_sitemap found it
  returned           \* per (path, lang): what the last call made with caching on
                     \* returned, since the last invalidation

vars == <<files, rows, cacheEnabled, page_context, website_pages,
          generator_routes, proc, edits, calls, mode, fresh, wiped, returned>>

----------------------------------------------------------------------------
(* Bounds of the model *)

MaxCalls == 2
MaxEdits == 1

Procs == {"r1", "r2"}
Langs == {"en", "fr"}
Paths == {"about", "contact", "blog", "nope"}

None == "None"

----------------------------------------------------------------------------
(* The environment: installed apps, their generator hooks, files and rows *)

Apps == <<"frappe", "erpnext">>

\* the two scanned sub-directories of an app, in the order get_pages scans them
Roots == <<"templates/pages", "www">>

\* frappe.get_hooks("website_generators", app_name = app), with what
\* get_meta / get_controller answer for each doctype
Generators ==
  [frappe  |-> << [doctype |-> "Web Page", parent_field |-> TRUE,
                   condition_field |-> "published"] >>,
   erpnext |-> << [doctype |-> "Item", parent_field |-> FALSE,
                   condition_field |-> None] >>]

\* a piece of a template's text: a marker the code looks for (t) and what it
\* carries (v)
Tok(t, v) == [t |-> t, v |-> v]

\* the files that may exist, in the order a walk lists them
FileSeq ==
  << [app |-> "frappe", root |-> "templates/pages", dir |-> ".", base |-> "blog",
      ext |-> "html",
      text |-> << Tok("{% block content %}", ""), Tok("<h1", "Blog"),
                  Tok("{% endblock %}", "") >>],
     [app |-> "frappe", root |-> "www", dir |-> ".", base |-> "about", ext |-> "html",
      text |-> << Tok("<!-- title:", "About Us"), Tok("text", "about") >>],
     [app |-> "frappe", root |-> "www", dir |-> ".", base |-> "about", ext |-> "js",
      text |-> << Tok("text", "about.js") >>],
     [app |-> "frappe", root |-> "www", dir |-> ".", base |-> "about", ext |-> "css",
      text |-> << Tok("text", "about.css") >>],
     [app |-> "frappe", root |-> "www", dir |-> ".", base |-> "contact", ext |-> "html",
      text |-> << Tok("<!-- no-cache -->", ""), Tok("<!-- no-header -->", ""),
                  Tok("text", "contact") >>],
     [app |-> "erpnext", root |-> "www", dir |-> "blog", base |-> "index", ext |-> "md",
      text |-> << Tok("<!-- title:", "My Blog"), Tok("text", "blog") >>],
     [app |-> "erpnext", root |-> "www", dir |-> ".", base |-> "help", ext |-> "md",
      text |-> << Tok("# ", "Help"), Tok("text", "help") >>] >>

FileUniverse == { FileSeq[n] : n \in DOMAIN FileSeq }

\* the pages of the site the requests run on
SiteFiles == { FileSeq[2], FileSeq[5], FileSeq[6] }

\* the rows that may exist, in the order a select lists them
RowSeq ==
  << [doctype |-> "Web Page", name |-> "about-us", page_name |-> "about",
      parent_website_route |-> "", published |-> 1, modified |-> "t1",
      has_context |-> TRUE],
     [doctype |-> "Web Page", name |-> "contact-us", page_name |-> "contact",
      parent_website_route |-> "", published |-> 1, modified |-> "t2",
      has_context |-> FALSE],
     [doctype |-> "Item", name |-> "ITEM-1", page_name |-> "blog",
      parent_website_route |-> None, published |-> 0, modified |-> "t3",
      has_context |-> TRUE],
     [doctype |-> "Web Page", name |-> "hello-world", page_name |-> "hello-world",
      parent_website_route |-> "blog", published |-> 1, modified |-> "t4",
      has_context |-> TRUE],
     [doctype |-> "Web Page", name |-> "draft", page_name |-> "draft",
      parent_website_route |-> "blog", published |-> 0, modified |-> "t5",
      has_context |-> TRUE],
     [doctype |-> "Web Page", name |-> "news", page_name |-> "news",
      parent_website_route |-> None, published |-> 1, modified |-> "t6",
      has_context |-> TRUE],
     [doctype |-> "Web Page", name |-> "about-2", page_name |-> "about",
      parent_website_route |-> "", published |-> 1, modified |-> "t7",
      has_context |-> TRUE] >>

RowUniverse == { RowSeq[n] : n \in DOMAIN RowSeq }

\* the rows of the site the requests run on
SiteRows == { RowSeq[1], RowSeq[2], RowSeq[3] }

----------------------------------------------------------------------------
(* Contexts: a frappe._dict, an unset key reading as None *)

NoContext ==
  [page_or_generator |-> None, name |-> None, page_name |-> None, template |-> None,
   only_content |-> FALSE, source |-> << >>, title |-> None, no_cache |-> FALSE,
   ref_doctype |-> None, page_title |-> None, doctype |-> None, pathname |-> None]

\* the truth value Python gives a context: None and the empty dict are false
Truthy(c) == c.page_or_generator # None

EmptyMap == [x \in {} |-> None]

Put(m, k, v) == [x \in DOMAIN m \cup {k} |-> IF x = k THEN v ELSE m[x]]

\* a per-path map of the page_context hash with no language in it
NoLangs == [l \in Langs |-> NoContext]

----------------------------------------------------------------------------
(* Page discovery *)

Fname(f) == f.base \o "." \o f.ext

\* str.title() of the last component of a route, on the names of this model
TitleCase(s) ==
  CASE s = "about" -> "About"
    [] s = "contact" -> "Contact"
    [] s = "blog" -> "Blog"
    [] s = "index" -> "Index"
    [] s = "help" -> "Help"
    [] OTHER -> s

\* os.path.join(os.path.relpath(basepath, path), basename)
\*   .strip('/').strip('.').strip('/')
RouteName(dir, basename) ==
  IF dir = "." THEN basename
  ELSE IF basename = "" THEN dir
  ELSE dir \o "/" \o basename

\* os.path.basename of a route
LastComponent(f, basename) == IF basename = "" THEN f.dir ELSE basename

SameDir(f, g) == f.app = g.app /\ f.root = g.root /\ f.dir = g.dir

\* os.path.exists(os.path.join(basepath, name))
Exists(fs, f, name) == \E g \in fs : SameDir(f, g) /\ Fname(g) = name

\* open(os.path.join(basepath, name)).read()
ReadFile(fs, f, name) ==
  (CHOOSE g \in fs : SameDir(f, g) /\ Fname(g) = name).text

\* t in source
Has(source, t) == \E n \in DOMAIN source : source[n].t = t

BlockMarkers ==
  {"{% block content %}", "{% block style %}", "{% block page_content %}",
   "{% block script %}", "{% block title %}", "{% block header %}"}

\* '{% block' in source
HasBlock(source) == \E n \in DOMAIN source : source[n].t \in BlockMarkers

\* markdown2.markdown: a heading becomes an <h1> element, markup passes through
markdown(source) ==
  [n \in DOMAIN source |->
     IF source[n].t = "# " THEN Tok("<h1", source[n].v) ELSE source[n]]

\* get_source: the template as it will be rendered, and whether it was taken
\* as content only
get_source(fs, f, basename) ==
  LET source == IF f.ext = "md" THEN markdown(f.text) ELSE f.text
      js_path  == basename \o ".js"
      css_path == basename \o ".css"
      js0 == IF Exists(fs, f, js_path) THEN ReadFile(fs, f, js_path) ELSE << >>
      \* line 188 assigns the style sheet to js
      js  == IF Exists(fs, f, css_path) THEN ReadFile(fs, f, css_path) ELSE js0
      css == << >>
  IN IF f.ext \in {"html", "md"}
     THEN IF ~Has(source, "</body>") /\ ~HasBlock(source)
          THEN [only_content |-> TRUE,
                html |->
                  << Tok("{% extends %}", "templates/web.html") >>
                  \o (IF css # << >>
                      THEN << Tok("{% block style %}", ""), Tok("<style>", "") >>
                           \o css
                           \o << Tok("</style>", ""), Tok("{% endblock %}", "") >>
                      ELSE << >>)
                  \o << Tok("{% block page_content %}", "") >>
                  \o source
                  \o << Tok("{% endblock %}", "") >>
                  \o (IF js # << >>
                      THEN << Tok("{% block script %}", ""), Tok("<script>", "") >>
                           \o js
                           \o << Tok("</script>", ""), Tok("{% endblock %}", "") >>
                      ELSE << >>)]
          ELSE [only_content |-> FALSE, html |-> source]
     ELSE [only_content |-> FALSE, html |-> << >>]

load_properties_HeaderAlways(source, name) ==
  LET title == IF Has(source, "<!-- title:")
               THEN source[CHOOSE n \in DOMAIN source :
                             /\ source[n].t = "<!-- title:"
                             /\ \A m \in 1..(n - 1) : source[m].t # "<!-- title:"].v
               ELSE TitleCase(name)
      source1 == IF ~Has(source, "{% block title %}")
                 THEN source \o << Tok("{% block title %}", ""), Tok("text", title),
                                   Tok("{% endblock %}", "") >>
                 ELSE source
      no_header == Has(source1, "<!-- no-header -->")
      source2 == source1 \o << Tok("{% block header %}", ""), Tok("<h1", title),
                               Tok("{% endblock %}", "") >>
  IN [source |-> source2, title |-> title, no_header |-> no_header,
      no_cache |-> Has(source2, "<!-- no-cache -->")]

\* load_properties: title, flags and the missing blocks of a content-only
\* page; name is os.path.basename(page_info.name)
load_properties(source, name) ==
  LET title == IF Has(source, "<!-- title:")
               THEN source[CHOOSE n \in DOMAIN source :
                             /\ source[n].t = "<!-- title:"
                             /\ \A m \in 1..(n - 1) : source[m].t # "<!-- title:"].v
               ELSE TitleCase(name)
      source1 == IF ~Has(source, "{% block title %}")
                 THEN source \o << Tok("{% block title %}", ""), Tok("text", title),
                                   Tok("{% endblock %}", "") >>
                 ELSE source
      no_header == Has(source1, "<!-- no-header -->")
      source2 == IF ~no_header /\ ~Has(source1, "{% block header %}")
                    /\ ~Has(source1, "<h1")
                 THEN source1 \o << Tok("{% block header %}", ""), Tok("<h1", title),
                                    Tok("{% endblock %}", "") >>
                 ELSE source1
  IN [source |-> source2, title |-> title, no_header |-> no_header,
      no_cache |-> Has(source2, "<!-- no-cache -->")]

\* os.path.relpath(os.path.join(basepath, fname), app_path)
TemplatePath(f) ==
  IF f.dir = "." THEN f.root \o "/" \o Fname(f)
  ELSE f.root \o "/" \o f.dir \o "/" \o Fname(f)

get_page_info(fs, f) ==
  LET basename0 == IF f.ext \in {"html", "md"} THEN f.base ELSE Fname(f)
      basename  == IF basename0 = "index" /\ f.dir # "." THEN "" ELSE basename0
      name      == RouteName(f.dir, basename)
      template  == TemplatePath(f)
      got       == get_source(fs, f, basename)
      props     == load_properties(got.html, LastComponent(f, basename))
  IN [page_or_generator |-> "Page",
      name          |-> name,
      page_name     |-> name,
      template      |-> template,
      only_content  |-> got.only_content,
      source        |-> IF got.only_content THEN props.source ELSE got.html,
      title         |-> IF got.only_content THEN props.title ELSE None,
      no_cache      |-> got.only_content /\ props.no_cache,
      ref_doctype   |-> None,
      page_title    |-> None,
      doctype       |-> None,
      pathname      |-> None]

PageExts == {"html", "xml", "js", "css", "md"}

\* a js or css file beside <fname>.html is linked to it and skipped
Skipped(fs, f) ==
  /\ f.ext \in {"js", "css"}
  /\ \E g \in fs : SameDir(f, g) /\ Fname(g) = Fname(f) \o ".html"

get_pages_from_path(fs, app, root) ==
  LET InWalk(f) == f \in fs /\ f.app = app /\ f.root = root
      Taken(f)  == InWalk(f) /\ ~Skipped(fs, f) /\ f.ext \in PageExts
      taken     == SelectSeq(FileSeq, Taken)
  IN [n \in DOMAIN taken |-> get_page_info(fs, taken[n])]

\* one pass of the loop of get_pages: the two roots of one app
ScanApp(fs, app) ==
  get_pages_from_path(fs, app, Roots[1]) \o get_pages_from_path(fs, app, Roots[2])

get_page_context_from_template_Last(pages, path) ==
  LET found == SelectSeq(pages, LAMBDA p : p.page_name = path)
  IN IF found # << >> THEN found[Len(found)] ELSE NoContext

\* filter(lambda p: p.page_name == path, pages), found[0] if found else None
get_page_context_from_template(pages, path) ==
  LET found == SelectSeq(pages, LAMBDA p : p.page_name = path)
  IN IF found # << >> THEN found[1] ELSE NoContext

----------------------------------------------------------------------------
(* The generator route index *)

\* the route column of the select
RouteOf(g, r) ==
  IF g.parent_field
  THEN LET parent == IF r.parent_website_route = None THEN ""
                     ELSE r.parent_website_route
       IN IF parent = "" THEN r.page_name ELSE parent \o "/" \o r.page_name
  ELSE r.page_name

Selected_All(db, g) ==
  SelectSeq(RowSeq, LAMBDA r : r \in db /\ r.doctype = g.doctype)

\* the rows the select of one doctype returns
Selected(db, g) ==
  SelectSeq(RowSeq, LAMBDA r : /\ r \in db
                               /\ r.doctype = g.doctype
                               /\ (g.condition_field # None => r.published = 1))

RECURSIVE AddRoutes(_, _, _)
AddRoutes(routes, g, sel) ==
  IF sel = << >> THEN routes
  ELSE AddRoutes(Put(routes, RouteOf(g, Head(sel)),
                     [doctype |-> g.doctype, name |-> Head(sel).name,
                      modified |-> Head(sel).modified]),
                 g, Tail(sel))

RECURSIVE AddDoctypes(_, _, _)
AddDoctypes(routes, db, gens) ==
  IF gens = << >> THEN routes
  ELSE AddDoctypes(AddRoutes(routes, Head(gens), Selected(db, Head(gens))),
                   db, Tail(gens))

\* one pass of the outer loop of get_page_context_from_doctypes: one app
IndexApp(routes, db, app) == AddDoctypes(routes, db, Generators[app])

\* frappe.get_doc(doctype, name).get_route_context(); no such row: get_doc raises
HasDoc(db, route) ==
  \E r \in db : r.doctype = route.doctype /\ r.name = route.name

get_route_context(db, route) ==
  LET r == CHOOSE r \in db : r.doctype = route.doctype /\ r.name = route.name
  IN IF ~r.has_context THEN NoContext
     ELSE [page_or_generator |-> "Generator",
           name          |-> r.name,
           page_name     |-> r.page_name,
           template      |-> None,
           only_content  |-> FALSE,
           source        |-> << >>,
           title         |-> None,
           no_cache      |-> FALSE,
           ref_doctype   |-> r.doctype,
           page_title    |-> r.name,
           doctype       |-> None,
           pathname      |-> None]

----------------------------------------------------------------------------
(* The cache store and the caching policy *)

\* frappe.website.utils.can_cache: caching is on and the context does not
\* declare itself non-cacheable
can_cache(no_cache) == cacheEnabled /\ ~no_cache

NoPages == [path \in Paths |-> NoLangs]

\* frappe.website.utils.delete_page_cache("*"): wipes the page_context keyspace
delete_page_cache(hash) == NoPages

----------------------------------------------------------------------------
(* A request *)

IdleProc ==
  [pc |-> "idle", path |-> None, lang |-> None,
   bound |-> FALSE,              \* page_context_cache has been assigned
   page_context_cache |-> NoLangs,
   page_context |-> NoContext,
   k |-> 0,                      \* which source resolve_route is trying
   i |-> 0,                      \* the app the build loop is at
   pages |-> << >>,
   routes |-> EmptyMap,
   result |-> None,
   resolved |-> FALSE,           \* make_page_context was called
   doc_loaded |-> FALSE,         \* frappe.get_doc was called
   after_clear |-> FALSE,        \* the first call since clear_sitemap
   wiped |-> NoContext,          \* what that clear_sitemap removed for (path, lang)
   prev |-> NoContext,           \* what the previous call of (path, lang) returned
   cached_call |-> FALSE,        \* caching was on at every check of this call
   stored |-> FALSE,             \* this call wrote the page_context hash
   overtaken |-> FALSE,          \* clear_sitemap ran while this call was in flight
   quiet |-> FALSE]              \* nothing the resolver reads has changed during the call

Special == {"about", "contact"}

SourceOrder_TemplateFirst(path) == << "template", "doctype" >>

SourceOrder_DoctypeFirst(path) == << "doctype", "template" >>

\* resolve_route: the order in which the two sources are tried
SourceOrder(path) ==
  IF path \notin Special THEN << "template", "doctype" >>
  ELSE << "doctype", "template" >>

FirstPc(source) == IF source = "template" THEN "pages_get" ELSE "routes_get"

\* make_page_context, after resolve_route returned a context
make_page_context(context, path) ==
  [context EXCEPT !.doctype = context.ref_doctype,
                  !.title = context.page_title,
                  !.pathname = path]

Answered_NoFallback(r, c) ==
  IF Truthy(c)
  THEN [r EXCEPT !.pc = "store", !.page_context = make_page_context(c, r.path)]
  ELSE [r EXCEPT !.pc = "ret", !.result = "DoesNotExistError"]

Answered_NoRaise(r, c) ==
  IF Truthy(c)
  THEN [r EXCEPT !.pc = "store", !.page_context = make_page_context(c, r.path)]
  ELSE IF r.k = 1
  THEN [r EXCEPT !.k = 2, !.pc = FirstPc(SourceOrder(r.path)[2])]
  ELSE [r EXCEPT !.pc = "ret", !.result = "ok"]

Answered_CachesNotFound(r, c) ==
  IF Truthy(c)
  THEN [r EXCEPT !.pc = "store", !.page_context = make_page_context(c, r.path)]
  ELSE IF r.k = 1
  THEN [r EXCEPT !.k = 2, !.pc = FirstPc(SourceOrder(r.path)[2])]
  ELSE [r EXCEPT !.pc = "store",
                 !.page_context = [NoContext EXCEPT !.page_or_generator = "NotFound"]]

\* what a request does once a source has answered with context c: the rest
\* of resolve_route and of make_page_context
Answered(r, c) ==
  IF Truthy(c)
  THEN [r EXCEPT !.pc = "store", !.page_context = make_page_context(c, r.path)]
  ELSE IF r.k = 1
  THEN [r EXCEPT !.k = 2, !.pc = FirstPc(SourceOrder(r.path)[2])]
  ELSE [r EXCEPT !.pc = "ret", !.result = "DoesNotExistError"]

\* the other requests in flight see a store the resolver reads change
Disturb(p, pr) ==
  [q \in Procs |-> IF q = p THEN pr[q] ELSE [pr[q] EXCEPT !.quiet = FALSE]]

DisturbAll == [q \in Procs |-> [proc[q] EXCEPT !.quiet = FALSE]]

AllIdle == \A q \in Procs : proc[q].pc = "idle"

\* the runs in which a request or an invalidation starts only when no request
\* is in flight
OneAtATime == mode \in {"seq", "scan", "index"}

\* a run on an arbitrary site makes one call
CallLimit == IF mode = "scan" THEN 1 ELSE MaxCalls

\* what a call that failed with DoesNotExistError leaves in the history
NotFound == [NoContext EXCEPT !.name = "DoesNotExistError"]

\* the workers are interchangeable: a request is taken by the first free one
ProcSeq == << "r1", "r2" >>

FirstIdle ==
  LET free == SelectSeq(ProcSeq, LAMBDA q : proc[q].pc = "idle")
  IN IF free = << >> THEN None ELSE free[1]

----------------------------------------------------------------------------
(* get_page_context *)

\* lines 12-13: frappe.cache().hget("page_context", path) or {}
PageContextCache(path) == IF can_cache(FALSE) THEN page_context[path] ELSE NoLangs

CachedContext_NeverFound(pcc, lang) == NoContext

CachedContext_AnyLang(pcc, lang) ==
  IF \E l \in Langs : Truthy(pcc[l])
  THEN pcc[CHOOSE l \in Langs : Truthy(pcc[l])]
  ELSE NoContext

\* line 14: page_context_cache.get(frappe.local.lang, None)
CachedContext(pcc, lang) == pcc[lang]

\* lines 11-17: the lookup in the page_context hash and, on a miss, the call
\* of make_page_context up to its first access to a shared store
Begin(p, path, lang) ==
  /\ proc[p].pc = "idle"
  /\ p = FirstIdle
  /\ calls < CallLimit
  /\ OneAtATime => AllIdle
  /\ LET cc     == can_cache(FALSE)
         pcc    == PageContextCache(path)
         cached == IF cc THEN CachedContext(pcc, lang) ELSE NoContext
         r0     == [IdleProc EXCEPT !.path = path, !.lang = lang,
                                    !.bound = cc, !.cached_call = cc,
                                    !.page_context_cache = pcc,
                                    !.after_clear = fresh,
                                    !.wiped = wiped[path][lang],
                                    !.prev = returned[path][lang],
                                    !.quiet = TRUE]
     IN proc' = [proc EXCEPT ![p] =
          IF Truthy(cached)
          THEN [r0 EXCEPT !.pc = "ret", !.page_context = cached, !.result = "ok"]
          ELSE [r0 EXCEPT !.resolved = TRUE, !.k = 1,
                          !.pc = FirstPc(SourceOrder(path)[1])]]
  /\ calls' = calls + 1
  /\ fresh' = FALSE
  /\ wiped' = NoPages
  /\ UNCHANGED <<files, rows, cacheEnabled, page_context, website_pages,
                 generator_routes, edits, mode, returned>>

PagesGet_IgnoresPolicy(p) ==
  /\ proc[p].pc = "pages_get"
  /\ LET r     == proc[p]
         pages == website_pages
     IN proc' = [proc EXCEPT ![p] =
          IF pages # << >>
          THEN Answered([r EXCEPT !.pages = pages],
                        get_page_context_from_template(pages, r.path))
          ELSE [r EXCEPT !.pc = "pages_scan", !.i = 1, !.pages = << >>]]
  /\ UNCHANGED <<files, rows, cacheEnabled, page_context, website_pages,
                 generator_routes, edits, calls, mode, fresh, wiped, returned>>

\* get_pages, lines 92-94: the read of the cached page list
PagesGet(p) ==
  /\ proc[p].pc = "pages_get"
  /\ LET r     == proc[p]
         pages == IF can_cache(FALSE) THEN website_pages ELSE << >>
     IN proc' = [proc EXCEPT ![p] =
          IF pages # << >>
          THEN Answered([r EXCEPT !.pages = pages],
                        get_page_context_from_template(pages, r.path))
          ELSE [r EXCEPT !.pc = "pages_scan", !.i = 1, !.pages = << >>]]
  /\ UNCHANGED <<files, rows, cacheEnabled, page_context, website_pages,
                 generator_routes, edits, calls, mode, fresh, wiped, returned>>

PagesScan_SetsEachPass(p) ==
  /\ proc[p].pc = "pages_scan"
  /\ LET r == proc[p]
     IN /\ proc' = [proc EXCEPT ![p] =
             [r EXCEPT !.pages = r.pages \o ScanApp(files, Apps[r.i]),
                       !.i = r.i + 1,
                       !.pc = IF r.i = Len(Apps) THEN "pages_set" ELSE "pages_scan"]]
        /\ website_pages' = r.pages \o ScanApp(files, Apps[r.i])
  /\ UNCHANGED <<files, rows, cacheEnabled, page_context,
                 generator_routes, edits, calls, mode, fresh, wiped, returned>>

\* get_pages, lines 96-105: one pass of the loop over the installed apps
PagesScan(p) ==
  /\ proc[p].pc = "pages_scan"
  /\ LET r == proc[p]
     IN proc' = [proc EXCEPT ![p] =
          [r EXCEPT !.pages = r.pages \o ScanApp(files, Apps[r.i]),
                    !.i = r.i + 1,
                    !.pc = IF r.i = Len(Apps) THEN "pages_set" ELSE "pages_scan"]]
  /\ UNCHANGED <<files, rows, cacheEnabled, page_context, website_pages,
                 generator_routes, edits, calls, mode, fresh, wiped, returned>>

\* get_pages, lines 107-108, then get_page_context_from_template
PagesSet(p) ==
  /\ proc[p].pc = "pages_set"
  /\ LET r    == proc[p]
         done == Answered(r, get_page_context_from_template(r.pages, r.path))
     IN /\ website_pages' = r.pages
        /\ proc' = IF r.pages = website_pages
                   THEN [proc EXCEPT ![p] = done]
                   ELSE Disturb(p, [proc EXCEPT ![p] = done])
  /\ UNCHANGED <<files, rows, cacheEnabled, page_context,
                 generator_routes, edits, calls, mode, fresh, wiped, returned>>

\* get_page_context_from_doctype, lines 58-60, up to the call of get_doc
Lookup(r, routes) ==
  IF r.path \in DOMAIN routes
  THEN [r EXCEPT !.routes = routes, !.pc = "doc_load"]
  ELSE Answered([r EXCEPT !.routes = routes], NoContext)

RoutesGet_OnlyWhenCaching(p) ==
  /\ proc[p].pc = "routes_get"
  /\ LET r == proc[p]
     IN proc' = [proc EXCEPT ![p] =
          IF can_cache(FALSE) /\ generator_routes # EmptyMap
          THEN Lookup(r, generator_routes)
          ELSE [r EXCEPT !.pc = "routes_build", !.i = 1, !.routes = EmptyMap]]
  /\ UNCHANGED <<files, rows, cacheEnabled, page_context, website_pages,
                 generator_routes, edits, calls, mode, fresh, wiped, returned>>

\* get_page_context_from_doctypes, lines 66-68: the read of the cached index
RoutesGet(p) ==
  /\ proc[p].pc = "routes_get"
  /\ LET r == proc[p]
     IN proc' = [proc EXCEPT ![p] =
          IF generator_routes # EmptyMap
          THEN Lookup(r, generator_routes)
          ELSE [r EXCEPT !.pc = "routes_build", !.i = 1, !.routes = EmptyMap]]
  /\ UNCHANGED <<files, rows, cacheEnabled, page_context, website_pages,
                 generator_routes, edits, calls, mode, fresh, wiped, returned>>

\* lines 69-85: one pass of the loop over the installed apps
RoutesBuild(p) ==
  /\ proc[p].pc = "routes_build"
  /\ LET r == proc[p]
     IN proc' = [proc EXCEPT ![p] =
          [r EXCEPT !.routes = IndexApp(r.routes, rows, Apps[r.i]),
                    !.i = r.i + 1,
                    !.pc = IF r.i = Len(Apps) THEN "routes_set" ELSE "routes_build"]]
  /\ UNCHANGED <<files, rows, cacheEnabled, page_context, website_pages,
                 generator_routes, edits, calls, mode, fresh, wiped, returned>>

\* lines 87-89, then the lookup of the path
RoutesSet(p) ==
  /\ proc[p].pc = "routes_set"
  /\ LET r    == proc[p]
         done == Lookup(r, r.routes)
     IN /\ generator_routes' = r.routes
        /\ proc' = IF r.routes = generator_routes
                   THEN [proc EXCEPT ![p] = done]
                   ELSE Disturb(p, [proc EXCEPT ![p] = done])
  /\ UNCHANGED <<files, rows, cacheEnabled, page_context, website_pages,
                 edits, calls, mode, fresh, wiped, returned>>

\* line 60: frappe.get_doc(...).get_route_context()
DocLoad(p) ==
  /\ proc[p].pc = "doc_load"
  /\ LET r     == [proc[p] EXCEPT !.doc_loaded = TRUE]
         route == r.routes[r.path]
     IN proc' = [proc EXCEPT ![p] =
          IF ~HasDoc(rows, route)
          THEN [r EXCEPT !.pc = "ret", !.result = "DoesNotExistError"]
          ELSE Answered(r, get_route_context(rows, route))]
  /\ UNCHANGED <<files, rows, cacheEnabled, page_context, website_pages,
                 generator_routes, edits, calls, mode, fresh, wiped, returned>>

Store_IgnoresNoCache(p) ==
  /\ proc[p].pc = "store"
  /\ LET r == [proc[p] EXCEPT !.cached_call = @ /\ cacheEnabled]
     IN IF can_cache(FALSE)
        THEN IF ~r.bound
             THEN \* page_context_cache was never assigned
                  /\ proc' = [proc EXCEPT ![p] =
                       [r EXCEPT !.pc = "ret", !.result = "UnboundLocalError"]]
                  /\ UNCHANGED page_context
             ELSE LET pcc == [r.page_context_cache EXCEPT ![r.lang] = r.page_context]
                  IN /\ page_context' = [page_context EXCEPT ![r.path] = pcc]
                     /\ proc' = [proc EXCEPT ![p] =
                          [r EXCEPT !.pc = "ret", !.result = "ok",
                                    !.page_context_cache = pcc,
                                    !.stored = TRUE]]
        ELSE /\ proc' = [proc EXCEPT ![p] = [r EXCEPT !.pc = "ret", !.result = "ok"]]
             /\ UNCHANGED page_context
  /\ UNCHANGED <<files, rows, cacheEnabled, website_pages,
                 generator_routes, edits, calls, mode, fresh, wiped, returned>>

Store_FreshMap(p) ==
  /\ proc[p].pc = "store"
  /\ LET r == [proc[p] EXCEPT !.cached_call = @ /\ cacheEnabled]
     IN IF can_cache(r.page_context.no_cache)
        THEN IF ~r.bound
             THEN \* page_context_cache was never assigned
                  /\ proc' = [proc EXCEPT ![p] =
                       [r EXCEPT !.pc = "ret", !.result = "UnboundLocalError"]]
                  /\ UNCHANGED page_context
             ELSE LET pcc == [NoLangs EXCEPT ![r.lang] = r.page_context]
                  IN /\ page_context' = [page_context EXCEPT ![r.path] = pcc]
                     /\ proc' = [proc EXCEPT ![p] =
                          [r EXCEPT !.pc = "ret", !.result = "ok",
                                    !.page_context_cache = pcc,
                                    !.stored = TRUE]]
        ELSE /\ proc' = [proc EXCEPT ![p] = [r EXCEPT !.pc = "ret", !.result = "ok"]]
             /\ UNCHANGED page_context
  /\ UNCHANGED <<files, rows, cacheEnabled, website_pages,
                 generator_routes, edits, calls, mode, fresh, wiped, returned>>

\* lines 18-20: the store of the resolved context
Store(p) ==
  /\ proc[p].pc = "store"
  /\ LET r == [proc[p] EXCEPT !.cached_call = @ /\ cacheEnabled]
     IN IF can_cache(r.page_context.no_cache)
        THEN IF ~r.bound
             THEN \* page_context_cache was never assigned
                  /\ proc' = [proc EXCEPT ![p] =
                       [r EXCEPT !.pc = "ret", !.result = "UnboundLocalError"]]
                  /\ UNCHANGED page_context
             ELSE LET pcc == [r.page_context_cache EXCEPT ![r.lang] = r.page_context]
                  IN /\ page_context' = [page_context EXCEPT ![r.path] = pcc]
                     /\ proc' = [proc EXCEPT ![p] =
                          [r EXCEPT !.pc = "ret", !.result = "ok",
                                    !.page_context_cache = pcc,
                                    !.stored = TRUE]]
        ELSE /\ proc' = [proc EXCEPT ![p] = [r EXCEPT !.pc = "ret", !.result = "ok"]]
             /\ UNCHANGED page_context
  /\ UNCHANGED <<files, rows, cacheEnabled, website_pages,
                 generator_routes, edits, calls, mode, fresh, wiped, returned>>

\* line 22, or the exception leaving get_page_context
Return(p) ==
  /\ proc[p].pc = "ret"
  /\ LET r == proc[p]
     IN returned' =
          IF r.result = "ok" /\ r.cached_call /\ mode = "seq"
          THEN [returned EXCEPT ![r.path][r.lang] = r.page_context]
          ELSE IF r.result = "DoesNotExistError" /\ r.cached_call /\ mode = "seq"
          THEN [returned EXCEPT ![r.path][r.lang] = NotFound]
          ELSE returned
  /\ proc' = [proc EXCEPT ![p] = IdleProc]
  /\ UNCHANGED <<files, rows, cacheEnabled, page_context, website_pages,
                 generator_routes, edits, calls, mode, fresh, wiped>>

----------------------------------------------------------------------------
(* Invalidation, and the environment. Files and rows change between        *)
(* requests; the caching policy may change at any moment.                  *)

\* the requests in flight have been overtaken by an invalidation
Overtaken ==
  [q \in Procs |-> IF proc[q].pc = "idle" THEN proc[q]
                   ELSE [proc[q] EXCEPT !.overtaken = TRUE]]

clear_sitemap_NoDelete ==
  /\ OneAtATime => AllIdle
  /\ fresh' = (mode = "seq")
  /\ wiped' = IF mode = "seq" THEN page_context ELSE wiped
  /\ returned' = NoPages
  /\ proc' = IF mode = "race" THEN Overtaken ELSE proc
  /\ UNCHANGED <<files, rows, cacheEnabled, page_context, website_pages,
                 generator_routes, edits, calls, mode>>

\* clear_sitemap, lines 62-63
clear_sitemap ==
  /\ OneAtATime => AllIdle
  /\ page_context' = delete_page_cache(page_context)
  /\ fresh' = (mode = "seq")
  /\ wiped' = IF mode = "seq" THEN page_context ELSE wiped
  /\ returned' = NoPages
  /\ proc' = IF mode = "race" THEN Overtaken ELSE proc
  /\ UNCHANGED <<files, rows, cacheEnabled, website_pages,
                 generator_routes, edits, calls, mode>>

\* a template file is added or removed, between requests
EditFile(f) ==
  /\ edits < MaxEdits
  /\ AllIdle
  /\ files' = IF f \in files THEN files \ {f} ELSE files \cup {f}
  /\ edits' = edits + 1
  /\ UNCHANGED <<rows, cacheEnabled, page_context, website_pages,
                 generator_routes, proc, calls, mode, fresh, wiped, returned>>

\* a row is inserted or deleted, between requests
EditRow(r) ==
  /\ edits < MaxEdits
  /\ AllIdle
  /\ rows' = IF r \in rows THEN rows \ {r} ELSE rows \cup {r}
  /\ edits' = edits + 1
  /\ UNCHANGED <<files, cacheEnabled, page_context, website_pages,
                 generator_routes, proc, calls, mode, fresh, wiped, returned>>

\* website caching is switched on or off, at any moment
SetCaching ==
  /\ edits < MaxEdits
  /\ cacheEnabled' = ~cacheEnabled
  /\ proc' = DisturbAll
  /\ edits' = edits + 1
  /\ UNCHANGED <<files, rows, page_context, website_pages,
                 generator_routes, calls, mode, fresh, wiped, returned>>

\* the cache entry of the route index is dropped from outside this module
\* (frappe.cache().delete_value("website_generator_routes")), between requests
InvalidateRoutes ==
  /\ AllIdle
  /\ generator_routes # EmptyMap
  /\ generator_routes' = EmptyMap
  /\ UNCHANGED <<files, rows, cacheEnabled, page_context, website_pages,
                 proc, edits, calls, mode, fresh, wiped, returned>>

----------------------------------------------------------------------------

\* empty caches, no request
NoRequest ==
  /\ cacheEnabled \in BOOLEAN
  /\ page_context = NoPages
  /\ website_pages = << >>
  /\ generator_routes = EmptyMap
  /\ proc = [p \in Procs |-> IdleProc]
  /\ edits = 0
  /\ calls = 0
  /\ fresh = FALSE
  /\ wiped = NoPages
  /\ returned = NoPages

\* the site with its pages and rows, or an empty site
Init0 ==
  /\ \/ files = SiteFiles /\ rows = SiteRows
     \/ files = {} /\ rows = {}
  /\ NoRequest

Init == Init0 /\ mode = "conc"

InitSeq == Init0 /\ mode = "seq"

\* an arbitrary set of files on the site's rows, or of rows on the site's files
InitScan ==
  /\ \/ files \in SUBSET FileUniverse /\ rows = SiteRows
     \/ files = SiteFiles /\ rows \in SUBSET RowUniverse
  /\ NoRequest
  /\ mode = "scan"

InitIndex == Init0 /\ mode = "index"

InitRace == Init0 /\ mode = "race"

\* the steps of a request
Request ==
  \/ \E p \in Procs, path \in Paths, lang \in Langs : Begin(p, path, lang)
  \/ \E p \in Procs : PagesGet(p)
  \/ \E p \in Procs : PagesScan(p)
  \/ \E p \in Procs : PagesSet(p)
  \/ \E p \in Procs : RoutesGet(p)
  \/ \E p \in Procs : RoutesBuild(p)
  \/ \E p \in Procs : RoutesSet(p)
  \/ \E p \in Procs : DocLoad(p)
  \/ \E p \in Procs : Store(p)
  \/ \E p \in Procs : Return(p)

Next ==
  \/ \E p \in Procs, path \in Paths, lang \in Langs : Begin(p, path, lang)
  \/ \E p \in Procs : PagesGet(p)
  \/ \E p \in Procs : PagesScan(p)
  \/ \E p \in Procs : PagesSet(p)
  \/ \E p \in Procs : RoutesGet(p)
  \/ \E p \in Procs : RoutesBuild(p)
  \/ \E p \in Procs : RoutesSet(p)
  \/ \E p \in Procs : DocLoad(p)
  \/ \E p \in Procs : Store(p)
  \/ \E p \in Procs : Return(p)
  \/ clear_sitemap
  \/ \E f \in SiteFiles : EditFile(f)
  \/ \E r \in SiteRows : EditRow(r)
  \/ SetCaching

\* one call on an arbitrary site
ScanNext == Request

\* the operations, and the route index dropped from outside
IndexNext == Next \/ InvalidateRoutes

\* requests and invalidations on a fixed site
RaceNext == Request \/ clear_sitemap

\* requests overlap
Spec == Init /\ [][Next]_vars

\* one operation at a time
SeqSpec == InitSeq /\ [][Next]_vars

\* one call, on every site of the universe
ScanSpec == InitScan /\ [][ScanNext]_vars

\* one operation at a time, the route index invalidated from outside
IndexSpec == InitIndex /\ [][IndexNext]_vars

\* requests overlapping with clear_sitemap
RaceSpec == InitRace /\ [][RaceNext]_vars

----------------------------------------------------------------------------
(* What a call made in the current state obtains from the two sources *)

\* get_pages(): the cached page list, or a scan of every app
get_pages ==
  IF can_cache(FALSE) /\ website_pages # << >> THEN website_pages
  ELSE ScanApp(files, Apps[1]) \o ScanApp(files, Apps[2])

\* get_page_context_from_doctypes(): the cached index, or one built from the rows
get_page_context_from_doctypes ==
  IF generator_routes # EmptyMap THEN generator_routes
  ELSE IndexApp(IndexApp(EmptyMap, rows, Apps[1]), rows, Apps[2])

FilePages(path) == SelectSeq(get_pages, LAMBDA pg : pg.page_name = path)

HasRoute(path) == path \in DOMAIN get_page_context_from_doctypes

RouteEntry(path) == get_page_context_from_doctypes[path]

\* the record of the route exists and yields a context
Yields(path) ==
  /\ HasDoc(rows, RouteEntry(path))
  /\ Truthy(get_route_context(rows, RouteEntry(path)))

\* request p has run the resolver to its end, with the sources unchanged
\* since the call began
Resolved(p) == proc[p].pc = "ret" /\ proc[p].resolved /\ proc[p].quiet

----------------------------------------------------------------------------
(* Claims *)

\* C1: for "about" and "contact", when a file page and a generator route of
\* that name both exist and the record yields a context, the resolver
\* returns the generator's context, not the file page.
C1_GeneratorFirstForSpecial ==
  \A p \in Procs :
    LET path == proc[p].path
    IN (/\ Resolved(p)
        /\ path \in Special
        /\ FilePages(path) # << >>
        /\ HasRoute(path)
        /\ Yields(path))
       => /\ proc[p].result = "ok"
          /\ proc[p].page_context =
               make_page_context(get_route_context(rows, RouteEntry(path)), path)
          /\ proc[p].page_context.page_or_generator = "Generator"

C1_Witness ==
  \E p \in Procs :
    /\ Resolved(p)
    /\ proc[p].path = "about"
    /\ FilePages("about") # << >>
    /\ HasRoute("about")
    /\ Yields("about")
    /\ proc[p].page_context.page_or_generator = "Generator"

\* C2: for any other path, when both exist, the resolver returns the file
\* page's context and the generator record is not loaded.
C2_FilePageFirstOtherwise ==
  \A p \in Procs :
    LET path == proc[p].path
    IN (/\ Resolved(p)
        /\ path \notin Special
        /\ FilePages(path) # << >>
        /\ HasRoute(path))
       => /\ proc[p].result = "ok"
          /\ proc[p].page_context = make_page_context(FilePages(path)[1], path)
          /\ proc[p].page_context.page_or_generator = "Page"
          /\ ~proc[p].doc_loaded

C2_Witness ==
  \E p \in Procs :
    /\ Resolved(p)
    /\ proc[p].path = "blog"
    /\ FilePages("blog") # << >>
    /\ HasRoute("blog")
    /\ proc[p].page_context.page_or_generator = "Page"
    /\ ~proc[p].doc_loaded

\* C3: a path, special or not, that matches exactly one file page and no
\* generator route resolves to that page's context.
C3_FilePageOnly ==
  \A p \in Procs :
    LET path == proc[p].path
    IN (/\ Resolved(p)
        /\ Len(FilePages(path)) = 1
        /\ ~HasRoute(path))
       => /\ proc[p].result = "ok"
          /\ proc[p].page_context = make_page_context(FilePages(path)[1], path)

C3_Witness ==
  \E p \in Procs :
    /\ Resolved(p)
    /\ proc[p].path \in Special
    /\ Len(FilePages(proc[p].path)) = 1
    /\ ~HasRoute(proc[p].path)
    /\ proc[p].result = "ok"
    /\ proc[p].page_context.page_or_generator = "Page"

\* C4: a call that consults the sources for a path matching neither a file
\* page nor a generator route fails with DoesNotExistError and returns no
\* context.
C4_UnknownPathNotFound ==
  \A p \in Procs :
    LET path == proc[p].path
    IN (/\ Resolved(p)
        /\ FilePages(path) = << >>
        /\ ~HasRoute(path))
       => /\ proc[p].result = "DoesNotExistError"
          /\ ~Truthy(proc[p].page_context)

C4_Witness ==
  \E p \in Procs :
    /\ Resolved(p)
    /\ FilePages(proc[p].path) = << >>
    /\ ~HasRoute(proc[p].path)
    /\ files # {}
    /\ proc[p].result = "DoesNotExistError"

\* C5 as stated: with caching on, the second of two successive calls for a
\* (path, language), no invalidation in between, returns the context the
\* first returned and does not run the resolver.
C5_SecondCallIdentical ==
  \A p \in Procs :
    (/\ proc[p].pc = "ret"
     /\ proc[p].bound
     /\ Truthy(proc[p].prev))
    => /\ proc[p].result = "ok"
       /\ proc[p].page_context = proc[p].prev
       /\ ~proc[p].resolved

\* C5, amended: the same, when the context the first call returned does not
\* declare itself non-cacheable (no_cache unset).
C5_SecondCallServedFromCache ==
  \A p \in Procs :
    (/\ proc[p].pc = "ret"
     /\ proc[p].bound
     /\ Truthy(proc[p].prev)
     /\ ~proc[p].prev.no_cache)
    => /\ proc[p].result = "ok"
       /\ proc[p].page_context = proc[p].prev
       /\ ~proc[p].resolved

C5_Witness ==
  \E p \in Procs :
    /\ proc[p].pc = "ret"
    /\ proc[p].bound
    /\ Truthy(proc[p].prev)
    /\ ~proc[p].prev.no_cache
    /\ proc[p].page_context = proc[p].prev
    /\ ~proc[p].resolved

\* C6: the first get_page_context call after clear_sitemap has completed
\* runs the resolver, whatever the cache held before.
C6_ReResolvesAfterClear ==
  \A p \in Procs :
    (proc[p].pc = "ret" /\ proc[p].after_clear) => proc[p].resolved

C6_Witness ==
  \E p \in Procs :
    /\ proc[p].pc = "ret"
    /\ proc[p].after_clear
    /\ proc[p].bound
    /\ Truthy(proc[p].wiped)
    /\ proc[p].resolved

\* a request is storing into (path, l)
Storing(p, path, l) ==
  proc[p].pc = "store" /\ proc[p].path = path /\ proc[p].lang = l

\* C7: a context enters the page_context cache only from a call that found
\* caching on at its lookup and at its store, and only if it does not declare
\* no_cache; so no cached context ever has no_cache set.
C7_OnlyCacheableStored ==
  [][\A path \in Paths, l \in Langs :
       (/\ page_context'[path][l] # page_context[path][l]
        /\ Truthy(page_context'[path][l]))
       => /\ cacheEnabled
          /\ ~page_context'[path][l].no_cache
          /\ \E p \in Procs : /\ proc[p].pc = "store"
                              /\ proc[p].path = path
                              /\ proc[p].bound]_vars

\* a no_cache context was resolved with caching on and was not stored
C7_Witness ==
  \E p \in Procs :
    /\ proc[p].pc = "ret"
    /\ proc[p].resolved
    /\ proc[p].result = "ok"
    /\ proc[p].bound /\ proc[p].cached_call
    /\ proc[p].page_context.no_cache
    /\ ~Truthy(page_context[proc[p].path][proc[p].lang])
    /\ \E path \in Paths, l \in Langs : Truthy(page_context[path][l])

\* C8: a call under language L is served from the cache only with the entry
\* stored under L for its path, and a store under L changes no entry under
\* another language.
C8_PartitionedByLanguage ==
  [][/\ \A p \in Procs :
          (proc[p].pc = "idle" /\ proc'[p].pc = "ret")
          => /\ Truthy(page_context[proc'[p].path][proc'[p].lang])
             /\ proc'[p].page_context = page_context[proc'[p].path][proc'[p].lang]
     /\ \A path \in Paths, l \in Langs :
          page_context'[path][l] # page_context[path][l]
          => \/ page_context' = NoPages
             \/ \E p \in Procs : Storing(p, path, l)]_vars

\* a path holds an entry under each language
C8_Witness ==
  \E path \in Paths :
    /\ \A l \in Langs : Truthy(page_context[path][l])
    /\ \E p \in Procs : proc[p].pc = "ret" /\ proc[p].path = path

\* C9 as stated: an entry of the page_context cache stays until an explicit
\* invalidation, whatever the interleaving of concurrent calls.
C9_StaysUntilInvalidated ==
  [][\A path \in Paths, l \in Langs :
       Truthy(page_context[path][l])
       => \/ page_context'[path][l] = page_context[path][l]
          \/ page_context' = NoPages]_vars

\* C10: each of the two list caches is only ever replaced by a whole value,
\* the list a request has built by running its loop over every app, and what
\* a reader takes from the cache is that value or empty.
C10_WholeValueOnly ==
  [][/\ website_pages' # website_pages
        => \E p \in Procs : /\ proc[p].pc = "pages_set"
                            /\ proc[p].i = Len(Apps) + 1
                            /\ website_pages' = proc[p].pages
     /\ generator_routes' # generator_routes
        => \E p \in Procs : /\ proc[p].pc = "routes_set"
                            /\ proc[p].i = Len(Apps) + 1
                            /\ generator_routes' = proc[p].routes
     /\ \A p \in Procs :
          (proc[p].pc = "pages_get" /\ proc'[p].pc # "pages_get")
          => proc'[p].pages \in {<< >>, website_pages}
     /\ \A p \in Procs :
          (proc[p].pc = "routes_get" /\ proc'[p].pc # "routes_get")
          => proc'[p].routes \in {EmptyMap, generator_routes}]_vars

\* one request is in the middle of its build while the cache holds the
\* finished list of another
C10_Witness ==
  \E p \in Procs :
    /\ proc[p].pc = "pages_scan"
    /\ proc[p].i = Len(Apps)
    /\ proc[p].pages # << >>
    /\ website_pages # << >>
    /\ website_pages # proc[p].pages

----------------------------------------------------------------------------
(* Claims on page discovery and the route index, on every site of the     *)
(* universe (ScanSpec)                                                     *)

\* the file-page source is the one that answers for the path
FilePageAnswers(path) ==
  /\ FilePages(path) # << >>
  /\ path \notin Special \/ ~HasRoute(path)

ParentRoute(r) ==
  IF r.parent_website_route \in {None, ""} THEN r.page_name
  ELSE r.parent_website_route \o "/" \o r.page_name

\* C12: for a generator type with a condition field (and a parent-route
\* field), the built route index has an entry for a row if and only if the
\* row's condition field is 1, under the route parent_route/page_name, or
\* page_name alone when the parent route is empty or null; an entry a later
\* row of the same route has overwritten names that row.
C12_IndexHoldsVisibleRows ==
  generator_routes # EmptyMap =>
    \A a \in DOMAIN Apps : \A n \in DOMAIN Generators[Apps[a]] :
      LET g == Generators[Apps[a]][n]
      IN (g.condition_field # None /\ g.parent_field) =>
           \A r \in rows :
             r.doctype = g.doctype =>
               /\ r.published = 1 =>
                    /\ ParentRoute(r) \in DOMAIN generator_routes
                    /\ \E r2 \in rows :
                         /\ r2.doctype = g.doctype
                            => r2.published = 1 /\ ParentRoute(r2) = ParentRoute(r)
                         /\ generator_routes[ParentRoute(r)].doctype = r2.doctype
                         /\ generator_routes[ParentRoute(r)].name = r2.name
               /\ r.published # 1 =>
                    \A route \in DOMAIN generator_routes :
                      ~(/\ generator_routes[route].doctype = r.doctype
                        /\ generator_routes[route].name = r.name)

C12_Witness ==
  /\ "blog/hello-world" \in DOMAIN generator_routes
  /\ generator_routes["blog/hello-world"].name = "hello-world"
  /\ "news" \in DOMAIN generator_routes
  /\ \E r \in rows : r.name = "draft"
  /\ "blog/draft" \notin DOMAIN generator_routes
  /\ "draft" \notin DOMAIN generator_routes

\* C13 as stated: the context returned for the route of a content-only file
\* page whose source carries a title directive X has title X, and is
\* cacheable when the source carries no no-cache marker.
C13_TitleFromDirective ==
  \A p \in Procs :
    LET path == proc[p].path
        page == FilePages(path)[1]
    IN (/\ Resolved(p)
        /\ FilePageAnswers(path)
        /\ page.only_content
        /\ Has(page.source, "<!-- title:"))
       => /\ proc[p].result = "ok"
          /\ \E n \in DOMAIN page.source :
               /\ page.source[n].t = "<!-- title:"
               /\ proc[p].page_context.title = page.source[n].v
          /\ ~Has(page.source, "<!-- no-cache -->") => ~proc[p].page_context.no_cache

\* the page a list holds for a file
PagesOf(pages, f) == SelectSeq(pages, LAMBDA pg : pg.template = TemplatePath(f))

\* C14 as stated: a .js or .css file with a sibling of the same base name
\* and extension .html in its directory produces no page descriptor.
C14_SidecarsSkipped ==
  website_pages # << >> =>
    \A f \in files :
      (/\ f.ext \in {"js", "css"}
       /\ \E g \in files : SameDir(f, g) /\ g.base = f.base /\ g.ext = "html")
      => PagesOf(website_pages, f) = << >>

Count(source, t) == Cardinality({n \in DOMAIN source : source[n].t = t})

\* the text of an html or md file has neither a closing body tag nor a block
ContentOnly(f) ==
  /\ f.ext \in {"html", "md"}
  /\ ~Has(f.text, "</body>")
  /\ ~HasBlock(f.text)

\* the rendered text has a heading
HasHeading(f) == Has(f.text, "<h1") \/ (f.ext = "md" /\ Has(f.text, "# "))

\* C15: a page whose html has neither a closing body tag nor a block marker
\* is wrapped in the page shell, and after property loading its source has
\* exactly one title block and, unless it has a no-header marker or a
\* heading, exactly one synthesized header block (none otherwise).
C15_WrappedWithTitleAndHeader ==
  website_pages # << >> =>
    \A f \in files :
      ContentOnly(f) =>
        /\ Len(PagesOf(website_pages, f)) = 1
        /\ LET pg == PagesOf(website_pages, f)[1]
           IN /\ pg.only_content
              /\ pg.source[1].t = "{% extends %}"
              /\ Count(pg.source, "{% block page_content %}") = 1
              /\ Count(pg.source, "{% block title %}") = 1
              /\ Count(pg.source, "{% block header %}") =
                   IF Has(f.text, "<!-- no-header -->") \/ HasHeading(f)
                   THEN 0 ELSE 1

C15_Witness ==
  /\ \E n \in DOMAIN website_pages :
       /\ website_pages[n].template = "www/help.md"
       /\ website_pages[n].only_content
       /\ Count(website_pages[n].source, "{% block header %}") = 0
       /\ Has(website_pages[n].source, "<h1")
  /\ \E n \in DOMAIN website_pages :
       /\ website_pages[n].template = "www/about.html"
       /\ Count(website_pages[n].source, "{% block header %}") = 1
  /\ \E n \in DOMAIN website_pages :
       /\ website_pages[n].template = "www/contact.html"
       /\ Count(website_pages[n].source, "{% block header %}") = 0
  /\ \E n \in DOMAIN website_pages :
       /\ website_pages[n].template = "templates/pages/blog.html"
       /\ ~website_pages[n].only_content

\* the tokens of text appear in source right after a token t
Injected(source, t, text) ==
  \E n \in DOMAIN source :
    /\ source[n].t = t
    /\ n + Len(text) <= Len(source)
    /\ \A m \in DOMAIN text : source[n + m] = text[m]

\* C17 as stated: for a content-only page with both a sibling .js and a
\* sibling .css, the css content is injected as the inline style block and
\* the js content is not injected as a script.
C17_CssInjectedAsStyle ==
  website_pages # << >> =>
    \A f \in files :
      (/\ ContentOnly(f)
       /\ Exists(files, f, f.base \o ".js")
       /\ Exists(files, f, f.base \o ".css"))
      => \A n \in DOMAIN PagesOf(website_pages, f) :
           LET pg == PagesOf(website_pages, f)[n]
           IN /\ Injected(pg.source, "<style>", ReadFile(files, f, f.base \o ".css"))
              /\ ~Injected(pg.source, "<script>", ReadFile(files, f, f.base \o ".js"))

----------------------------------------------------------------------------
(* Claims on the caches over time *)

\* the route index of the rows as they are now
BuiltIndex == IndexApp(IndexApp(EmptyMap, rows, Apps[1]), rows, Apps[2])

\* C16: a non-empty cached route index is what every later
\* get_page_context_from_doctypes call returns, whatever the rows have become
\* and whether website caching is on or off, and it changes only by being
\* invalidated; after that the next call builds the whole index from the
\* rows as they are.
C16_IndexServedUntilInvalidated ==
  [][/\ \A p \in Procs :
          (/\ proc[p].pc = "routes_get" /\ proc'[p].pc # "routes_get"
           /\ generator_routes # EmptyMap)
          => /\ proc'[p].routes = generator_routes
             /\ proc'[p].pc # "routes_build"
     /\ generator_routes # EmptyMap
        => \/ generator_routes' = generator_routes
           \/ generator_routes' = EmptyMap /\ AllIdle
     /\ \A p \in Procs :
          (/\ proc[p].pc = "routes_get" /\ proc'[p].pc # "routes_get"
           /\ generator_routes = EmptyMap)
          => proc'[p].pc = "routes_build"
     /\ \A p \in Procs :
          (proc[p].pc = "routes_set" /\ proc'[p].pc # "routes_set")
          => generator_routes' = BuiltIndex]_vars

\* a call has been served the cached index although the rows have changed
C16_Witness ==
  \E p \in Procs :
    /\ proc[p].pc \in {"doc_load", "store", "ret", "pages_get"}
    /\ proc[p].routes # EmptyMap
    /\ proc[p].routes = generator_routes
    /\ generator_routes # BuiltIndex

\* C18 as stated: a get_page_context call that was in flight when
\* clear_sitemap ran does not store its context afterwards.
C18_NoStoreAcrossInvalidation ==
  [][\A p \in Procs :
       (proc[p].pc = "store" /\ proc[p].overtaken /\ proc'[p].pc = "ret")
       => page_context' = page_context]_vars

\* a call made now for the path finds a context
Resolvable(path) ==
  \/ HasRoute(path) /\ Yields(path)
  \/ /\ FilePages(path) # << >>
     /\ (path \in Special /\ HasRoute(path)) => HasDoc(rows, RouteEntry(path))

\* C19: a call that fails with DoesNotExistError, and any call that finds
\* the path in neither source, writes nothing to the page_context cache; the
\* following call for the path and language runs the resolver again, and
\* succeeds if the sources then hold the path.
C19_NoNegativeCaching ==
  \A p \in Procs :
    proc[p].pc = "ret" =>
      /\ proc[p].result = "DoesNotExistError" => ~proc[p].stored
      /\ (/\ Resolved(p)
          /\ FilePages(proc[p].path) = << >>
          /\ ~HasRoute(proc[p].path)) => ~proc[p].stored
      /\ (proc[p].prev = NotFound /\ proc[p].bound)
         => /\ proc[p].resolved
            /\ (proc[p].quiet /\ Resolvable(proc[p].path)) => proc[p].result = "ok"

\* a call failed, the path was added, and the next call found it
C19_Witness ==
  \E p \in Procs :
    /\ proc[p].pc = "ret"
    /\ proc[p].prev = NotFound
    /\ proc[p].bound
    /\ proc[p].resolved
    /\ proc[p].result = "ok"
    /\ proc[p].stored

\* C20: while website caching is off, a get_page_context call does not take
\* its context from the page_context cache, get_pages scans instead of
\* returning the cached page list, and no step of a call changes the
\* page_context cache.
C20_CachingOffBypassesCaches ==
  [][~cacheEnabled =>
       /\ \A p \in Procs :
            (proc[p].pc = "idle" /\ proc'[p].pc # "idle")
            => proc'[p].resolved /\ proc'[p].pc # "ret"
       /\ \A p \in Procs :
            (proc[p].pc = "pages_get" /\ proc'[p].pc # "pages_get")
            => proc'[p].pc = "pages_scan"
       /\ (\E p \in Procs : proc[p].pc # "idle") => page_context' = page_context]_vars

\* with caching off, a call scans although both caches hold its answer
C20_Witness ==
  \E p \in Procs :
    /\ ~cacheEnabled
    /\ proc[p].pc = "pages_scan"
    /\ website_pages # << >>
    /\ Truthy(page_context[proc[p].path][proc[p].lang])

====
